---- MODULE Spec2Model ----
(***************************************************************************)
(* Patch embedding of a whole-slide image (sopa/embedding/patches.py) and  *)
(* the transcript filtering tool (workflow/config/filter-transcripts.py).  *)
(*                                                                         *)
(* Numbers that are floats in the program are exact rationals <<n, d>>     *)
(* with d > 0 here; an optional value is <<>> (None) or the value itself   *)
(* (a rational) or <<v>> (an optional integer).                            *)
(***************************************************************************)
EXTENDS Integers, Sequences, FiniteSets, TLC

(* ------------------------------ bounds -------------------------------- *)
MaxPatchWidth == 2      \* patch_width argument ranges over 1..MaxPatchWidth
MaxBatch == 2           \* batch_size argument ranges over 1..MaxBatch
MaxW == 3               \* image width (level-0 pixels) ranges over 1..MaxW
MaxH == 3               \* image height (level-0 pixels) ranges over 1..MaxH
MaxDim == 2             \* model.output_dim ranges over 1..MaxDim
MaxLevels == 3          \* length of the level_downsamples lists of SpecLevel
MaxRuns == 2            \* run directories found by filter-transcripts.py
MaxCalls == 3           \* calls of setup_transcript_directories on one sample

(* ----------------------------- rationals ------------------------------ *)
None == <<>>
Rat(n, d) == <<n, d>>
RatLE(a, b) == a[1] * b[2] <= b[1] * a[2]
RatLT(a, b) == a[1] * b[2] < b[1] * a[2]
RatEq(a, b) == a[1] * b[2] = b[1] * a[2]
RatAdd(a, b) == <<a[1] * b[2] + b[1] * a[2], a[2] * b[2]>>
RatDiv(a, b) == <<a[1] * b[2], a[2] * b[1]>>
RatMulInt(k, a) == <<k * a[1], a[2]>>
Abs(x) == IF x < 0 THEN -x ELSE x
\* |a - b|
RatAbsDiff(a, b) == <<Abs(a[1] * b[2] - b[1] * a[2]), a[2] * b[2]>>
\* Python int() of a non-negative float: truncation
PyInt(a) == a[1] \div a[2]
(* -------------------- get_best_level_for_downsample ------------------- *)
epsilon == Rat(1, 100)

\* the for loop of lines 27-30, entered at index `at` (1-based here, so the
\* 0-based level of list position p is p - 1)
\* faulty variant: `return level` in place of `return level - 1`
RECURSIVE ScanLevelsReturnsLevel(_, _, _)
ScanLevelsReturnsLevel(level_downsamples, downsample, at) ==
    IF at > Len(level_downsamples) THEN Len(level_downsamples) - 1
    ELSE IF RatLT(RatAdd(downsample, epsilon), level_downsamples[at])
         THEN at - 1
         ELSE ScanLevelsReturnsLevel(level_downsamples, downsample, at + 1)

RECURSIVE ScanLevels(_, _, _)
ScanLevels(level_downsamples, downsample, at) ==
    IF at > Len(level_downsamples) THEN Len(level_downsamples) - 1
    ELSE IF RatLT(RatAdd(downsample, epsilon), level_downsamples[at])
         THEN (at - 1) - 1
         ELSE ScanLevels(level_downsamples, downsample, at + 1)

\* faulty variant: the early return of lines 25-26 is missing
GetBestLevelWithoutGuard(level_downsamples, downsample) ==
    ScanLevels(level_downsamples, downsample, 1)

get_best_level_for_downsample(level_downsamples, downsample) ==
    IF RatLE(downsample, Rat(1, 1)) THEN 0
    ELSE ScanLevels(level_downsamples, downsample, 1)

(* ---------------------- _get_extraction_parameters -------------------- *)
Some(v) == <<v>>
\* Python truthiness of properties.get(key): absent (None) and 0 are falsy
Truthy(x) == x # None /\ x[1] # 0

MppObjectives == <<80, 40, 20, 10, 5>>
\* key of line 58: abs(10 / obj - mppx)
MppKey(obj, mppx) == RatAbsDiff(Rat(10, obj), mppx)
\* min(list, key=...): the first element whose key is strictly below the
\* keys of all elements before it and not above any key after it
RECURSIVE MinByKey(_, _, _, _)
MinByKey(objs, mppx, at, best) ==
    IF at > Len(objs) THEN best
    ELSE IF RatLT(MppKey(objs[at], mppx), MppKey(best, mppx))
         THEN MinByKey(objs, mppx, at + 1, objs[at])
         ELSE MinByKey(objs, mppx, at + 1, best)
mpp_objective(mppx) == MinByKey(MppObjectives, mppx, 2, MppObjectives[1])

\* faulty variant: a default objective of 20 when no property is usable
DownsampleWithDefault(tiff_metadata, magnification) ==
    IF Truthy(tiff_metadata.objective_power)
    THEN Rat(PyInt(tiff_metadata.objective_power), magnification[1])
    ELSE IF Truthy(tiff_metadata.mpp_x)
         THEN Rat(mpp_objective(tiff_metadata.mpp_x), magnification[1])
         ELSE Rat(20, magnification[1])

\* lines 51-61: the downsample ratio, None when neither property is usable
Downsample(tiff_metadata, magnification) ==
    IF Truthy(tiff_metadata.objective_power)
    THEN Rat(PyInt(tiff_metadata.objective_power), magnification[1])
    ELSE IF Truthy(tiff_metadata.mpp_x)
         THEN Rat(mpp_objective(tiff_metadata.mpp_x), magnification[1])
         ELSE None

\* faulty variant: the downsample of level 0 in place of the selected level's
ResizeFactorOfBaseLevel(level_downsamples, level, downsample) ==
    RatDiv(level_downsamples[1], downsample)

\* faulty variant: the quotient of line 64 inverted
ResizeFactorInverted(level_downsamples, level, downsample) ==
    RatDiv(downsample, level_downsamples[level + 1])

\* line 64
ResizeFactor(level_downsamples, level, downsample) ==
    RatDiv(level_downsamples[level + 1], downsample)
\* line 65
AdjustedPatchWidth(patch_width, downsample) ==
    PyInt(RatMulInt(patch_width, downsample))

\* faulty variant: without a magnification the level is always 0
GetExtractionParametersLevelZero(tiff_metadata, patch_width, level, magnification) ==
    LET failed == [raised |-> TRUE, level |-> None, resize_factor |-> None,
                   patch_width |-> None, success |-> FALSE, downsample |-> None]
    IN  IF magnification = None
        THEN [raised |-> FALSE, level |-> Some(0), resize_factor |-> Rat(1, 1),
              patch_width |-> Some(patch_width), success |-> TRUE,
              downsample |-> None]
        ELSE IF ~tiff_metadata.present THEN failed
        ELSE LET downsample == Downsample(tiff_metadata, magnification)
             IN  IF downsample = None
                 THEN [failed EXCEPT !.raised = FALSE]
                 ELSE LET lds == tiff_metadata.level_downsamples
                          level2 == get_best_level_for_downsample(lds, downsample)
                      IN  [raised |-> FALSE, level |-> Some(level2),
                           resize_factor |-> ResizeFactor(lds, level2, downsample),
                           patch_width |-> Some(AdjustedPatchWidth(patch_width, downsample)),
                           success |-> TRUE, downsample |-> downsample]

\* the returned tuple (level, resize_factor, patch_width, success); `raised`
\* is the KeyError of tiff_metadata["properties"] on an empty metadata map,
\* `downsample` the value of the local variable of that name
get_extraction_parameters(tiff_metadata, patch_width, level, magnification) ==
    LET level1 == IF level = None /\ magnification = None THEN Some(0) ELSE level
        failed == [raised |-> TRUE, level |-> None, resize_factor |-> None,
                   patch_width |-> None, success |-> FALSE, downsample |-> None]
    IN  IF magnification = None
        THEN [raised |-> FALSE, level |-> level1, resize_factor |-> Rat(1, 1),
              patch_width |-> Some(patch_width), success |-> TRUE,
              downsample |-> None]
        ELSE IF ~tiff_metadata.present THEN failed
        ELSE LET downsample == Downsample(tiff_metadata, magnification)
             IN  IF downsample = None
                 THEN [failed EXCEPT !.raised = FALSE]
                 ELSE LET lds == tiff_metadata.level_downsamples
                          level2 == get_best_level_for_downsample(lds, downsample)
                      IN  [raised |-> FALSE, level |-> Some(level2),
                           resize_factor |-> ResizeFactor(lds, level2, downsample),
                           patch_width |-> Some(AdjustedPatchWidth(patch_width, downsample)),
                           success |-> TRUE, downsample |-> downsample]

(* -------------------------- Patches2D (grid) -------------------------- *)
CeilDiv(a, b) == (a + b - 1) \div b
Min(a, b) == IF a <= b THEN a ELSE b

\* Patches2D(sdata, image_key, patch_width, 0): shape is (rows, cols)
PatchesShape(image, patch_width) ==
    <<CeilDiv(image.height, patch_width), CeilDiv(image.width, patch_width)>>
PatchesLen(image, patch_width) ==
    PatchesShape(image, patch_width)[1] * PatchesShape(image, patch_width)[2]
\* ilocs: (col, row) of the k-th patch (k is 1-based here), row-major order
PatchesIlocs(image, patch_width) ==
    LET cols == PatchesShape(image, patch_width)[2]
    IN  [k \in 1..PatchesLen(image, patch_width) |->
            <<(k - 1) % cols, (k - 1) \div cols>>]
\* bboxes: (x0, y0, x1, y1) at level 0, the last row and column clipped to
\* the image extent
PatchesBboxes(image, patch_width) ==
    LET ilocs == PatchesIlocs(image, patch_width)
    IN  [k \in 1..PatchesLen(image, patch_width) |->
            <<ilocs[k][1] * patch_width,
              ilocs[k][2] * patch_width,
              Min((ilocs[k][1] + 1) * patch_width, image.width),
              Min((ilocs[k][2] + 1) * patch_width, image.height)>>]

(* ----------------------------- _torch_patch --------------------------- *)
\* number of pixels of a level whose level-0 coordinate j * ds lies in [lo, hi)
LevelExtent(lo, hi, ds) ==
    CeilDiv(hi * ds[2], ds[1]) - CeilDiv(lo * ds[2], ds[1])

\* shape (rows, cols) of the region the bounding box query returns: a
\* multiscale image is read at scale{level}, a single-scale one as it is
QueryShape(image, box, level) ==
    LET ds == IF Len(image.level_downsamples) > 1
              THEN image.level_downsamples[level + 1] ELSE Rat(1, 1)
    IN  <<LevelExtent(box[2], box[4], ds), LevelExtent(box[1], box[3], ds)>>

\* lines 90-92: dim = (int(shape[0] * f), int(shape[1] * f)) is handed to
\* cv2.resize as dsize = (width, height), so the result has dim[1] rows and
\* dim[0] columns
ResizedShape(shape, resize_factor) ==
    IF RatEq(resize_factor, Rat(1, 1)) THEN shape
    ELSE LET dim == <<PyInt(RatMulInt(shape[1], resize_factor)),
                      PyInt(RatMulInt(shape[2], resize_factor))>>
         IN  <<dim[2], dim[1]>>

\* the (rows, cols) of the tensor _torch_patch returns for a box
PatchShape(image, box, level, resize_factor) ==
    ResizedShape(QueryShape(image, box, level), resize_factor)

\* _torch_patch raises: no scale{level} in the image, or an empty region
PatchRaises(image, box, level, resize_factor) ==
    \/ Len(image.level_downsamples) > 1 /\ level >= Len(image.level_downsamples)
    \/ \E d \in 1..2 : PatchShape(image, box, level, resize_factor)[d] <= 0

(* --------------------- state of embed_wsi_patches --------------------- *)
VARIABLES
    image,            \* the WSI: width, height, pyramid, metadata attribute
    args,             \* model_name, patch_width, level, magnification, batch_size
    output_dim,       \* model.output_dim of the named model
    pc,               \* position in embed_wsi_patches
    level, resize_factor, patch_width, success,   \* locals set at line 162
    downsample,       \* the local of _get_extraction_parameters, lines 53/59
    patches,          \* the Patches2D object, None before line 169
    embedding_image,  \* the canvas, None before line 170
    writes,           \* how often each canvas cell was assigned
    extracted,        \* number of _torch_patch calls made
    embedded,         \* batch length and result shape of the latest embedder(batch)
    i,                \* loop variable of line 174
    images, shapes,   \* keys the run registered in sdata
    transformation,   \* Scale of the registered embedding image, as (x, y)
    processed,        \* batch starts already handled (SpecAnyOrder only)
    runs,             \* number of the current run on this sdata (SpecTwice)
    first_canvas,     \* the canvas of the first run, once it has returned
    result,           \* "" while running, then the return value or exception
    probe,            \* input and result of the function run by SpecLevel, SpecPixel
    flags,            \* filter-transcripts.py: the parsed command line
    run_dirs,         \* the run directories found, with their transcript files
    fs,               \* what exists under each run directory's filtered_dir
    fs0,              \* fs when main started
    worker,           \* position of each process_run_directory call
    validated,        \* runs for which the validation script was started
    removed,          \* runs whose filtered_dir was removed by rmtree
    data_path,        \* setup_transcript_directories: transcripts.* in the sample dir
    original_transcripts_dir,   \* original-transcripts: exists, transcripts.* in it
    filtered_dir,     \* qv20-filtered-transcripts: exists, transcripts.* in it
    after_call        \* the sample directory as each call so far has left it

vars == <<image, args, output_dim, pc, level, resize_factor, patch_width, success, downsample,
          patches, embedding_image, writes, extracted, embedded, i, images, shapes,
          transformation, processed, runs, first_canvas, result, probe,
          flags, run_dirs, fs, fs0, worker, validated, removed,
          data_path, original_transcripts_dir, filtered_dir, after_call>>

inputs == <<image, args, output_dim, probe, runs, first_canvas>>
locals == <<level, resize_factor, patch_width, success, downsample>>
canvas == <<patches, embedding_image, writes, extracted, embedded, i, processed>>
sdata == <<images, shapes, transformation>>
filtering == <<flags, run_dirs, fs, fs0, worker, validated, removed>>
sample == <<data_path, original_transcripts_dir, filtered_dir, after_call>>

(* ------------------------------ embed_batch --------------------------- *)
ModelNames == {"Resnet50Features", "HistoSSLFeatures", "DINOv2Features", "DummyFeatures"}

\* a tensor is [shape |-> <<d1, ..>>, at |-> [index tuple |-> value]]
Indices(shape) ==
    IF Len(shape) = 0 THEN {<<>>}
    ELSE IF Len(shape) = 1 THEN {<<a>> : a \in 1..shape[1]}
    ELSE {<<a, b>> : a \in 1..shape[1], b \in 1..shape[2]}
Reverse(q) == [p \in 1..Len(q) |-> q[Len(q) + 1 - p]]
IsNotOne(d) == d # 1

\* the index into the unsqueezed tensor of an index into the squeezed one
RECURSIVE Unsqueezed(_, _)
Unsqueezed(shape, idx) ==
    IF shape = <<>> THEN <<>>
    ELSE IF Head(shape) = 1 THEN <<1>> \o Unsqueezed(Tail(shape), idx)
    ELSE <<Head(idx)>> \o Unsqueezed(Tail(shape), Tail(idx))

\* torch.Tensor.squeeze(): every dimension of size 1 is dropped
Squeeze(t) ==
    LET shape == SelectSeq(t.shape, IsNotOne)
    IN  [shape |-> shape,
         at |-> [idx \in Indices(shape) |-> t.at[Unsqueezed(t.shape, idx)]]]

\* faulty variant: the .T of line 183 is missing
TransposeMissing(t) == t

\* Tensor.T: the dimensions reversed
Transpose(t) ==
    [shape |-> Reverse(t.shape),
     at |-> [idx \in Indices(Reverse(t.shape)) |-> t.at[Reverse(idx)]]]

\* faulty variant: the name is not checked when the embedder is built
ModelKnownUnchecked(model_name) == TRUE

\* line 103: hasattr(models, model_name)
ModelKnown(model_name) == model_name \in ModelNames

\* faulty variant: a model whose output drifts with the number of the run
ModelOutputOfRun(model_name, k, j) ==
    IF model_name = "DummyFeatures" THEN j + runs ELSE 10 * k + j + runs

\* feature j of the model's output for the patch cut at box k: the dummy model
\* returns the constant vector (1, 2, ..), any other a value of its own for
\* every patch and feature
ModelOutput(model_name, k, j) ==
    IF model_name = "DummyFeatures" THEN j ELSE 10 * k + j

\* model(patches): one output vector per patch of the batch, shape (N, output_dim)
ModelForward(model_name, batch, dim) ==
    [shape |-> <<Len(batch), dim>>,
     at |-> [idx \in Indices(<<Len(batch), dim>>) |->
                ModelOutput(model_name, batch[idx[1]], idx[2])]]

\* the closure `_` of embed_batch, lines 110-119 (the batch is the sequence
\* of the box numbers of its patches)
Embedder(model_name, batch, dim) ==
    Squeeze(ModelForward(model_name, batch, dim))

\* numpy assignment a[index] = value: value must broadcast to the shape of
\* a[index]; dimensions are aligned on the right
Broadcastable(vshape, tshape) ==
    /\ Len(vshape) <= Len(tshape)
    /\ \A p \in 1..Len(vshape) :
          LET v == vshape[Len(vshape) + 1 - p]
              t == tshape[Len(tshape) + 1 - p]
          IN  v = 1 \/ v = t
\* the element of value that lands at index tidx of the target
BroadcastAt(value, tidx) ==
    LET r == Len(value.shape)
        off == Len(tidx) - r
    IN  value.at[[p \in 1..r |-> IF value.shape[p] = 1 THEN 1 ELSE tidx[off + p]]]

(* --------------------------- embed_wsi_patches ------------------------ *)

ObjectivePowers == {None, Rat(5, 2), Rat(30, 1)}
MppXs == {None, Rat(3, 8)}
Magnifications == {None, Some(3), Some(10), Some(40)}
Levels == {None, Some(0), Some(1)}
LevelDownsampleLists ==
    { <<Rat(1, 1)>>,
      <<Rat(1, 1), Rat(2, 1), Rat(4, 1), Rat(8, 1)>>,
      <<Rat(1, 1), Rat(301, 100), Rat(602, 100)>> }
Images ==
    [width : 1..MaxW, height : 1..MaxH, level_downsamples : LevelDownsampleLists,
     has_metadata : {TRUE}, objective_power : ObjectivePowers, mpp_x : MppXs]
    \cup
    [width : 1..MaxW, height : 1..MaxH, level_downsamples : LevelDownsampleLists,
     has_metadata : {FALSE}, objective_power : {None}, mpp_x : {None}]
Args ==
    [model_name : {"DummyFeatures", "Resnet50Features", "NoSuchFeatures"}, patch_width : 1..MaxPatchWidth,
     level : Levels, magnification : Magnifications, batch_size : 1..MaxBatch]

\* line 157: image.attrs.get("metadata", {})
TiffMetadata(img) ==
    [present |-> img.has_metadata, objective_power |-> img.objective_power,
     mpp_x |-> img.mpp_x, level_downsamples |-> img.level_downsamples]

\* faulty variant: one key for every model
EmbeddingKeyWithoutModel(model_name) == <<"sopa_", "embedding">>

\* line 193 and SopaKeys.EMBEDDINGS_PATCHES_KEY
EmbeddingKey(model_name) == <<"sopa_", model_name>>
PatchesKey == <<"EMBEDDINGS_PATCHES_KEY">>

NotEmbedded == [n |-> 0, shape |-> <<>>]

\* filter-transcripts.py is not running
NoFiltering ==
    /\ flags = [dry_run |-> FALSE, skip_validation |-> FALSE]
    /\ run_dirs = <<>> /\ fs = <<>> /\ fs0 = <<>> /\ worker = <<>>
    /\ validated = {} /\ removed = {}

EmbedIdle ==
    /\ pc = "embed_batch"
    /\ level = None /\ resize_factor = None /\ patch_width = None /\ success = FALSE
    /\ downsample = None
    /\ patches = None /\ embedding_image = None /\ writes = None
    /\ extracted = 0 /\ embedded = NotEmbedded /\ i = 0
    /\ images = {} /\ shapes = {} /\ transformation = None
    /\ processed = {} /\ runs = 1 /\ first_canvas = None
    /\ result = ""

\* no sample directory is being set up
NoSample ==
    /\ data_path = <<>> /\ original_transcripts_dir = <<>> /\ filtered_dir = <<>>
    /\ after_call = <<>>

Idle == EmbedIdle /\ NoFiltering /\ NoSample

\* the end-to-end scenario: a single-level 256 x 256 image, patch_width 64,
\* level 0, the default batch_size of line 131, a dummy model of output_dim 4
ScenarioImage ==
    [width |-> 256, height |-> 256, level_downsamples |-> <<Rat(1, 1)>>,
     has_metadata |-> TRUE, objective_power |-> None, mpp_x |-> None]
ScenarioArgs ==
    [model_name |-> "DummyFeatures", patch_width |-> 64, level |-> Some(0),
     magnification |-> None, batch_size |-> 32]

Init ==
    /\ \/ image \in Images /\ args \in Args /\ output_dim \in 1..MaxDim
       \/ image = ScenarioImage /\ args = ScenarioArgs /\ output_dim = 4
    /\ probe = None
    /\ Idle

Return(value) == pc' = "done" /\ result' = value
Raise(exception) == pc' = "done" /\ result' = exception

\* line 160: embed_batch asserts that the model name is known
EmbedBatch ==
    /\ pc = "embed_batch"
    /\ IF ModelKnown(args.model_name)
       THEN pc' = "get_extraction_parameters" /\ result' = result
       ELSE Raise("AssertionError")
    /\ UNCHANGED <<sample, filtering, inputs, locals, canvas, sdata>>

\* lines 162-167
GetExtractionParameters ==
    /\ pc = "get_extraction_parameters"
    /\ LET r == get_extraction_parameters(TiffMetadata(image), args.patch_width,
                                          args.level, args.magnification)
       IN  IF r.raised
           THEN Raise("KeyError") /\ UNCHANGED locals
           ELSE /\ level' = r.level
                /\ resize_factor' = r.resize_factor
                /\ patch_width' = r.patch_width
                /\ success' = r.success
                /\ downsample' = r.downsample
                /\ IF r.success
                   THEN pc' = "Patches2D" /\ result' = result
                   ELSE Return("False")
    /\ UNCHANGED <<sample, filtering, inputs, canvas, sdata>>

\* lines 169-170: the grid over the image extent and the zero canvas; a
\* patch width that is not positive is rejected by the grid
Cells(shape) == {<<y, x>> : y \in 0..(shape[1] - 1), x \in 0..(shape[2] - 1)}
Zeros(dim, shape) ==
    [idx \in {<<c, cell[1], cell[2]>> : c \in 1..dim, cell \in Cells(shape)} |-> 0]
Patches2D(img, width) ==
    [shape |-> PatchesShape(img, width), bboxes |-> PatchesBboxes(img, width),
     ilocs |-> PatchesIlocs(img, width), patch_width |-> width]

BuildGrid ==
    /\ pc = "Patches2D"
    /\ IF patch_width[1] <= 0
       THEN Raise("AssertionError") /\ UNCHANGED <<patches, embedding_image, writes>>
       ELSE /\ patches' = Patches2D(image, patch_width[1])
            /\ embedding_image' = Zeros(output_dim, PatchesShape(image, patch_width[1]))
            /\ writes' = [cell \in Cells(PatchesShape(image, patch_width[1])) |-> 0]
            /\ pc' = "loop" /\ result' = result
    /\ UNCHANGED <<sample, filtering, inputs, locals, extracted, embedded, i, processed, sdata>>

\* line 174: range(0, len(patches), batch_size)
NextBatchStart(start, batch_size) == start + batch_size
\* Python slice q[lo:hi] of a list of n elements, as 1-based positions
Slice(n, lo, hi) == [p \in 1..(Min(hi, n) - Min(lo, n)) |-> Min(lo, n) + p]
\* faulty variant: the slice of line 178 takes one box too many
BatchBoxesInclusive(n, start, batch_size) == Slice(n, start, start + batch_size + 1)

\* line 178: the boxes of patches.bboxes[i : i + batch_size]
BatchBoxes(n, start, batch_size) == Slice(n, start, start + batch_size)
\* faulty variant: the slice of line 182 without its offset i
BatchIlocsFromZero(n, start, len) == Slice(n, 0, len)

\* line 182: the positions of patches.ilocs[i : i + len(batch)]
BatchIlocs(n, start, len) == Slice(n, start, start + len)

\* lines 175-180 raise: a patch cannot be cut, or torch.stack meets patches
\* of different shapes
StackRaises(batch) ==
    \/ \E p \in 1..Len(batch) :
          PatchRaises(image, patches.bboxes[batch[p]], level[1], resize_factor)
    \/ \E p, q \in 1..Len(batch) :
          PatchShape(image, patches.bboxes[batch[p]], level[1], resize_factor)
            # PatchShape(image, patches.bboxes[batch[q]], level[1], resize_factor)

\* faulty variant: the canvas is addressed as [:, loc_x, loc_y]
ScatterSwapped(emb, locs, value) ==
    [idx \in DOMAIN emb |->
        LET hits == {p \in 1..Len(locs) :
                        patches.ilocs[locs[p]] = <<idx[2], idx[3]>>}
        IN  IF hits = {} THEN emb[idx]
            ELSE BroadcastAt(value, <<idx[1], CHOOSE p \in hits : \A q \in hits : q <= p>>)]

\* line 183: embedding_image[:, loc_y, loc_x] = value, locs the ilocs positions
Scatter(emb, locs, value) ==
    [idx \in DOMAIN emb |->
        LET hits == {p \in 1..Len(locs) :
                        patches.ilocs[locs[p]] = <<idx[3], idx[2]>>}
        IN  IF hits = {} THEN emb[idx]
            ELSE BroadcastAt(value, <<idx[1], CHOOSE p \in hits : \A q \in hits : q <= p>>)]
CountWrites(w, locs) ==
    [cell \in DOMAIN w |->
        w[cell] + Cardinality({p \in 1..Len(locs) :
                                  patches.ilocs[locs[p]] = <<cell[2], cell[1]>>})]

\* some patch of the batch cannot be cut
PatchesRaise(batch) ==
    \E p \in 1..Len(batch) :
        PatchRaises(image, patches.bboxes[batch[p]], level[1], resize_factor)

\* lines 175-183 for the batch that starts at `start`: the exception raised
\* ("" when none) and the values the iteration leaves in the loop state
BatchOutcome(start) ==
    LET n == Len(patches.bboxes)
        batch == BatchBoxes(n, start, args.batch_size)
        locs == BatchIlocs(n, start, Len(batch))
        embedding == Embedder(args.model_name, batch, output_dim)
        value == Transpose(embedding)
        kept == [exception |-> "", embedding_image |-> embedding_image,
                 writes |-> writes, extracted |-> extracted, embedded |-> embedded]
    IN  IF StackRaises(batch)
        THEN [kept EXCEPT !.exception =
                 IF PatchesRaise(batch) THEN "PatchError" ELSE "RuntimeError"]
        ELSE IF ~Broadcastable(value.shape, <<output_dim, Len(locs)>>)
        THEN [kept EXCEPT !.exception = "ValueError",
                          !.extracted = extracted + Len(batch),
                          !.embedded = [n |-> Len(batch), shape |-> embedding.shape]]
        ELSE [exception |-> "",
              embedding_image |-> Scatter(embedding_image, locs, value),
              writes |-> CountWrites(writes, locs),
              extracted |-> extracted + Len(batch),
              embedded |-> [n |-> Len(batch), shape |-> embedding.shape]]

\* one iteration of the loop of lines 174-183
BatchStep ==
    /\ pc = "loop"
    /\ LET o == BatchOutcome(i)
       IN  /\ embedding_image' = o.embedding_image
           /\ writes' = o.writes
           /\ extracted' = o.extracted
           /\ embedded' = o.embedded
           /\ IF o.exception # ""
              THEN Raise(o.exception) /\ i' = i
              ELSE /\ i' = NextBatchStart(i, args.batch_size)
                   /\ pc' = IF i' < Len(patches.bboxes) THEN "loop" ELSE "add_image"
                   /\ result' = result
    /\ UNCHANGED <<sample, filtering, inputs, locals, patches, processed, sdata>>

\* the storage or the model fails during an iteration (I/O error, device error)
BatchFails ==
    /\ pc = "loop"
    /\ Raise("Exception")
    /\ UNCHANGED <<sample, filtering, inputs, locals, canvas, sdata>>

\* faulty variant: the scale of the caller's patch_width argument
ScaleByArgument(local_patch_width, argument_patch_width) ==
    <<argument_patch_width, argument_patch_width>>

\* line 188: Scale([patch_width, patch_width], axes=("x", "y")), where
\* patch_width is the local reassigned at line 162, not the argument
ScaleTransformation(local_patch_width, argument_patch_width) ==
    <<local_patch_width, local_patch_width>>

\* lines 185-194: wrap the canvas and register it
AddImage ==
    /\ pc = "add_image"
    /\ images' = images \cup {EmbeddingKey(args.model_name)}
    /\ transformation' = ScaleTransformation(patch_width[1], args.patch_width)
    /\ pc' = "write" /\ result' = result
    /\ UNCHANGED <<sample, filtering, inputs, locals, canvas, shapes>>

AddImageFails ==
    /\ pc = "add_image"
    /\ Raise("Exception")
    /\ UNCHANGED <<sample, filtering, inputs, locals, canvas, sdata>>

\* lines 198-200: write the patch geometry and return the image
WritePatches ==
    /\ pc = "write"
    /\ shapes' = shapes \cup {PatchesKey}
    /\ Return("SpatialImage")
    /\ UNCHANGED <<sample, filtering, inputs, locals, canvas, images, transformation>>

WritePatchesFails ==
    /\ pc = "write"
    /\ Raise("Exception")
    /\ UNCHANGED <<sample, filtering, inputs, locals, canvas, sdata>>

Next ==
    \/ EmbedBatch
    \/ GetExtractionParameters
    \/ BuildGrid
    \/ BatchStep
    \/ BatchFails
    \/ AddImage
    \/ AddImageFails
    \/ WritePatches
    \/ WritePatchesFails

Spec == Init /\ [][Next]_vars

(* ------------- a second run on the same sdata (SpecTwice) ------------- *)
\* embed_wsi_patches is called again with the same arguments after it has
\* returned; what the first call registered in sdata is still there
RunAgain ==
    /\ pc = "done" /\ result = "SpatialImage" /\ runs = 1
    /\ first_canvas' = embedding_image
    /\ runs' = 2
    /\ pc' = "embed_batch" /\ result' = ""
    /\ level' = None /\ resize_factor' = None /\ patch_width' = None
    /\ success' = FALSE /\ downsample' = None
    /\ patches' = None /\ embedding_image' = None /\ writes' = None
    /\ extracted' = 0 /\ embedded' = NotEmbedded /\ i' = 0
    /\ UNCHANGED <<sample, filtering, image, args, output_dim, probe, processed, sdata>>

NextTwice == Next \/ RunAgain

SpecTwice == Init /\ [][NextTwice]_vars

(* ------------ the batches taken in any order (SpecAnyOrder) ----------- *)
\* line 174: the values of range(0, n, batch_size)
BatchStarts(n, batch_size) == {start \in 0..(n - 1) : start % batch_size = 0}

InitAnyOrder ==
    /\ image \in [width : 1..MaxW, height : 1..MaxH,
                   level_downsamples : {<<Rat(1, 1)>>}, has_metadata : {FALSE},
                   objective_power : {None}, mpp_x : {None}]
    /\ args \in [model_name : {"Resnet50Features"}, patch_width : 1..MaxPatchWidth,
                  level : {None}, magnification : {None}, batch_size : 1..MaxBatch]
    /\ output_dim \in 1..MaxDim
    /\ probe = None
    /\ Idle

\* the body of the loop for any batch that has not been handled yet, each
\* batch with its own boxes and ilocs; i is the start of the latest batch
BatchStepAnyOrder ==
    /\ pc = "loop"
    /\ \E start \in BatchStarts(Len(patches.bboxes), args.batch_size) \ processed :
          LET o == BatchOutcome(start)
          IN  /\ embedding_image' = o.embedding_image
              /\ writes' = o.writes
              /\ extracted' = o.extracted
              /\ embedded' = o.embedded
              /\ processed' = processed \cup {start}
              /\ i' = start
              /\ IF o.exception # ""
                 THEN Raise(o.exception)
                 ELSE /\ pc' = IF processed' = BatchStarts(Len(patches.bboxes),
                                                           args.batch_size)
                               THEN "add_image" ELSE "loop"
                      /\ result' = result
    /\ UNCHANGED <<sample, filtering, inputs, locals, patches, sdata>>

NextAnyOrder ==
    \/ EmbedBatch
    \/ GetExtractionParameters
    \/ BuildGrid
    \/ BatchStepAnyOrder
    \/ AddImage
    \/ WritePatches

SpecAnyOrder == InitAnyOrder /\ [][NextAnyOrder]_vars

(* ------------- the level selection on its own (SpecLevel) ------------- *)
LdValues == {Rat(1, 1), Rat(2, 1), Rat(301, 100), Rat(4, 1)}
ProbeDownsamples == {Rat(1, 2), Rat(1, 1), Rat(3, 2), Rat(2, 1), Rat(3, 1), Rat(5, 1)}
SeqsUpTo(S, n) == UNION {[1..k -> S] : k \in 0..n}

InitLevel ==
    /\ probe \in [level_downsamples : SeqsUpTo(LdValues, MaxLevels),
                  downsample : ProbeDownsamples, level : {None}]
    /\ image = [width |-> 1, height |-> 1, level_downsamples |-> <<Rat(1, 1)>>,
                has_metadata |-> FALSE, objective_power |-> None, mpp_x |-> None]
    /\ args = [model_name |-> "DummyFeatures", patch_width |-> 1, level |-> None,
               magnification |-> None, batch_size |-> 1]
    /\ output_dim = 1
    /\ Idle

SelectLevel ==
    /\ probe.level = None
    /\ probe' = [probe EXCEPT !.level =
                    Some(get_best_level_for_downsample(probe.level_downsamples,
                                                       probe.downsample))]
    /\ UNCHANGED <<sample, filtering, image, args, output_dim, runs, first_canvas, pc, locals,
                   canvas, sdata, result>>

NextLevel == SelectLevel

SpecLevel == InitLevel /\ [][NextLevel]_vars

(* --------- the normalisation of _torch_patch (SpecPixel) --------------- *)
\* line 95: patch / 255.0
PixelDivisor == 255
Normalize(value) == Rat(value, PixelDivisor)

\* the values of an unsigned integer image of the given width in bits: all
\* of them for 8 bits, a sample over the whole range for 16 bits
PixelValues(bits) ==
    IF bits = 8 THEN 0..255 ELSE {256} \cup {257 * v : v \in 0..255}

InitPixel ==
    /\ \E bits \in {8, 16} :
          probe \in [bits : {bits}, value : PixelValues(bits), normalized : {None}]
    /\ image = ScenarioImage /\ args = ScenarioArgs /\ output_dim = 4
    /\ Idle

TorchPatchNormalizes ==
    /\ probe.normalized = None
    /\ probe' = [probe EXCEPT !.normalized = Normalize(probe.value)]
    /\ UNCHANGED <<sample, filtering, image, args, output_dim, runs, first_canvas, pc, locals,
                   canvas, sdata, result>>

NextPixel == TorchPatchNormalizes

SpecPixel == InitPixel /\ [][NextPixel]_vars

(* ------------- filter-transcripts.py (SpecFilter) --------------------- *)
\* what can exist for a run directory: its filtered_dir (line 81) and the two
\* files the filters write into it (lines 64 and 76)
FilteredDir == "qv20-filtered-transcripts"
FilteredCsv == "transcripts.csv.gz"
FilteredParquet == "transcripts.parquet"

\* line 182: ThreadPoolExecutor(max_workers=4)
MaxWorkers == 4

\* faulty variant: the directory is created in a dry run too
CreateFilteredDirAlways(files, dry_run) == files \cup {FilteredDir}

\* lines 90-93: filtered_dir.mkdir(exist_ok=True) unless dry_run
create_filtered_dir(files, dry_run) ==
    IF dry_run THEN files ELSE files \cup {FilteredDir}

\* lines 56-64
filter_and_save_csv(files, dry_run) ==
    IF dry_run THEN files ELSE files \cup {FilteredCsv}

\* lines 67-76
filter_and_save_parquet(files, dry_run) ==
    IF dry_run THEN files ELSE files \cup {FilteredParquet}

\* faulty variant: only the files inside filtered_dir are removed
RmtreeKeepsDirectory(files) == files \cap {FilteredDir}

\* shutil.rmtree(filtered_dir), lines 116 and 122
rmtree(files) == {}

\* find_run_directories keeps a directory that has at least one of the files
RunDirKinds ==
    {d \in [csv : BOOLEAN, parquet : BOOLEAN] : d.csv \/ d.parquet}

\* a run directory before main: never filtered, or filtered by an earlier call
Existing == {{}, {FilteredDir}, {FilteredDir, FilteredCsv}}

InitFilter ==
    /\ flags \in [dry_run : BOOLEAN, skip_validation : BOOLEAN]
    /\ \E n \in 0..MaxRuns :
          /\ run_dirs \in [1..n -> RunDirKinds]
          /\ fs \in [1..n -> Existing]
          /\ worker = [r \in 1..n |-> "pending"]
    /\ fs0 = fs
    /\ validated = {} /\ removed = {}
    /\ image = ScenarioImage /\ args = ScenarioArgs /\ output_dim = 4
    /\ probe = None
    /\ EmbedIdle /\ NoSample

embedding == <<inputs, pc, locals, canvas, sdata, result>>

Running == {r \in DOMAIN worker : worker[r] \notin {"pending", "returned", "raised"}}

\* lines 119-123: the except clause of process_run_directory
ExceptClause(r) ==
    /\ IF ~flags.dry_run /\ FilteredDir \in fs[r]
       THEN fs' = [fs EXCEPT ![r] = rmtree(fs[r])] /\ removed' = removed \cup {r}
       ELSE UNCHANGED <<fs, removed>>
    /\ worker' = [worker EXCEPT ![r] = "raised"]

\* lines 81-86: a pool thread takes the next run directory and skips it when
\* its filtered_dir exists
StartRun(r) ==
    /\ worker[r] = "pending"
    /\ \A q \in 1..(r - 1) : worker[q] # "pending"
    /\ Cardinality(Running) < MaxWorkers
    /\ worker' = [worker EXCEPT ![r] =
                     IF FilteredDir \in fs[r] THEN "returned" ELSE "mkdir"]
    /\ UNCHANGED <<flags, run_dirs, fs, fs0, validated, removed, embedding, sample>>

\* lines 88-93
CreateDir(r) ==
    /\ worker[r] = "mkdir"
    /\ fs' = [fs EXCEPT ![r] = create_filtered_dir(fs[r], flags.dry_run)]
    /\ worker' = [worker EXCEPT ![r] = "csv"]
    /\ UNCHANGED <<flags, run_dirs, fs0, validated, removed, embedding, sample>>

\* line 91 raises (no permission, parent gone)
CreateDirFails(r) ==
    /\ worker[r] = "mkdir"
    /\ ~flags.dry_run
    /\ ExceptClause(r)
    /\ UNCHANGED <<flags, run_dirs, fs0, validated, embedding, sample>>

\* lines 95-98
ProcessCsv(r) ==
    /\ worker[r] = "csv"
    /\ fs' = [fs EXCEPT ![r] = IF run_dirs[r].csv
                                THEN filter_and_save_csv(fs[r], flags.dry_run)
                                ELSE fs[r]]
    /\ worker' = [worker EXCEPT ![r] = "parquet"]
    /\ UNCHANGED <<flags, run_dirs, fs0, validated, removed, embedding, sample>>

\* lines 61-64 raise (unreadable file, no qv column, write error)
ProcessCsvFails(r) ==
    /\ worker[r] = "csv"
    /\ run_dirs[r].csv /\ ~flags.dry_run
    /\ ExceptClause(r)
    /\ UNCHANGED <<flags, run_dirs, fs0, validated, embedding, sample>>

\* lines 100-103
ProcessParquet(r) ==
    /\ worker[r] = "parquet"
    /\ fs' = [fs EXCEPT ![r] = IF run_dirs[r].parquet
                                THEN filter_and_save_parquet(fs[r], flags.dry_run)
                                ELSE fs[r]]
    /\ worker' = [worker EXCEPT ![r] = "validate"]
    /\ UNCHANGED <<flags, run_dirs, fs0, validated, removed, embedding, sample>>

\* lines 72-76 raise
ProcessParquetFails(r) ==
    /\ worker[r] = "parquet"
    /\ run_dirs[r].parquet /\ ~flags.dry_run
    /\ ExceptClause(r)
    /\ UNCHANGED <<flags, run_dirs, fs0, validated, embedding, sample>>

\* the outcomes of run_validation, lines 22-53: the script is missing (no
\* process started), it exits non-zero, subprocess.run raises, or it exits 0
ValidationOutcomes == {"missing", "nonzero", "exception", "ok"}

\* lines 105-116
Validate(r) ==
    /\ worker[r] = "validate"
    /\ IF flags.dry_run
       THEN UNCHANGED <<fs, validated, removed>>
       ELSE \E outcome \in ValidationOutcomes :
               /\ validated' = IF outcome = "missing" THEN validated
                               ELSE validated \cup {r}
               /\ IF outcome # "ok" /\ ~flags.dry_run /\ FilteredDir \in fs[r]
                  THEN /\ fs' = [fs EXCEPT ![r] = rmtree(fs[r])]
                       /\ removed' = removed \cup {r}
                  ELSE UNCHANGED <<fs, removed>>
    /\ worker' = [worker EXCEPT ![r] = "returned"]
    /\ UNCHANGED <<flags, run_dirs, fs0, embedding, sample>>

NextFilter ==
    \E r \in DOMAIN worker :
        \/ StartRun(r)
        \/ CreateDir(r)
        \/ CreateDirFails(r)
        \/ ProcessCsv(r)
        \/ ProcessCsvFails(r)
        \/ ProcessParquet(r)
        \/ ProcessParquetFails(r)
        \/ Validate(r)

SpecFilter == InitFilter /\ [][NextFilter]_vars

(* ------------ setup_transcript_directories (SpecSetup) ---------------- *)
\* the names that match transcripts.* and where the content of a file comes
\* from: the sample directory, original-transcripts or
\* qv20-filtered-transcripts as they were before the first call
TranscriptNames == {"transcripts.csv.gz", "transcripts.parquet"}
Absent == "absent"
NoFiles == [name \in TranscriptNames |-> Absent]

\* line 13: original_transcripts_dir.glob("transcripts.*")
existing_transcripts(original) ==
    {name \in TranscriptNames : original.files[name] # Absent}

\* lines 18-28: every transcripts.* of data_path is unlinked, then every
\* transcripts.* of filtered_dir is copied over
RefreshFromFiltered(data, filtered) ==
    IF filtered.exists THEN filtered.files ELSE data

\* lines 33-38: the files of data_path that original-transcripts has no
\* file for are moved there
MoveToOriginal(data, original) ==
    [data |-> [name \in TranscriptNames |->
                  IF original.files[name] = Absent THEN Absent ELSE data[name]],
     original |-> [original EXCEPT !.files =
                  [name \in TranscriptNames |->
                      IF original.files[name] = Absent THEN data[name]
                      ELSE original.files[name]]]]

\* lines 40-47: the filtered files are copied where data_path has none
CopyMissingFromFiltered(data, filtered) ==
    IF filtered.exists
    THEN [name \in TranscriptNames |->
             IF filtered.files[name] # Absent /\ data[name] = Absent
             THEN filtered.files[name] ELSE data[name]]
    ELSE data

\* lines 6-49 as a function of the sample directory
setup_transcript_directories(s) ==
    LET original == [s.original EXCEPT !.exists = TRUE]
    IN  IF existing_transcripts(original) # {}
        THEN [data |-> RefreshFromFiltered(s.data, s.filtered),
              original |-> original, filtered |-> s.filtered]
        ELSE LET moved == MoveToOriginal(s.data, original)
             IN  [data |-> CopyMissingFromFiltered(moved.data, s.filtered),
                  original |-> moved.original, filtered |-> s.filtered]

\* a directory that may be missing, with transcripts.* files of one origin
Directories(origin) ==
    {[exists |-> FALSE, files |-> NoFiles]}
      \cup [exists : {TRUE}, files : [TranscriptNames -> {Absent, origin}]]

Sample ==
    [data |-> data_path, original |-> original_transcripts_dir,
     filtered |-> filtered_dir]

InitSetup ==
    /\ data_path \in [TranscriptNames -> {Absent, "data"}]
    /\ original_transcripts_dir \in Directories("original")
    /\ filtered_dir \in Directories("filtered")
    /\ after_call = <<>>
    /\ image = ScenarioImage /\ args = ScenarioArgs /\ output_dim = 4
    /\ probe = None
    /\ EmbedIdle /\ NoFiltering

SetupTranscriptDirectories ==
    /\ Len(after_call) < MaxCalls
    /\ LET s == setup_transcript_directories(Sample)
       IN  /\ data_path' = s.data
           /\ original_transcripts_dir' = s.original
           /\ filtered_dir' = s.filtered
           /\ after_call' = Append(after_call, s)
    /\ UNCHANGED <<embedding, filtering>>

NextSetup == SetupTranscriptDirectories

SpecSetup == InitSetup /\ [][NextSetup]_vars

(* ------------------------------- claims ------------------------------- *)
\* Python round() of a non-negative number: nearest integer, ties to even
PyRound(a) ==
    LET f == a[1] \div a[2]
        r == a[1] % a[2]
    IN  IF 2 * r < a[2] THEN f
        ELSE IF 2 * r > a[2] THEN f + 1
        ELSE IF f % 2 = 0 THEN f ELSE f + 1

MagnificationResolved == success /\ args.magnification # None
AfterLoop == pc \in {"add_image", "write"} \/ result = "SpatialImage"
CellOf(k) == <<patches.ilocs[k][2], patches.ilocs[k][1]>>

\* C1: the batches partition the patch indices: at every moment of the loop
\* the first i patches (i capped at n) have had their cell written exactly once
\* and no other cell has been written, so no cell is ever written twice and
\* after the loop every one of the rows * cols cells has been written once.
C1_EachCellWrittenOnce ==
    patches # None =>
        /\ DOMAIN writes = Cells(patches.shape)
        /\ Len(patches.bboxes) = patches.shape[1] * patches.shape[2]
        /\ \A k \in 1..Len(patches.bboxes) : writes[CellOf(k)] = (IF k <= i THEN 1 ELSE 0)
        /\ \A cell \in DOMAIN writes : writes[cell] <= 1
        /\ AfterLoop => \A cell \in Cells(patches.shape) : writes[cell] = 1

\* a run past the loop whose last batch was smaller than batch_size
C1_Witness ==
    /\ pc = "add_image"
    /\ Len(patches.bboxes) >= 3
    /\ args.batch_size = 2
    /\ Len(patches.bboxes) % args.batch_size = 1

\* C2: whatever the batch size, the scatter of a batch never fails on the
\* shape of the embedder's result, and after the loop every cell
\* canvas[:, row, col] holds the model's output for the patch at (row, col).
C2_SameCanvasForEveryBatchSize ==
    /\ result # "ValueError"
    /\ AfterLoop =>
          \A k \in 1..Len(patches.bboxes) : \A c \in 1..output_dim :
              embedding_image[<<c, CellOf(k)[1], CellOf(k)[2]>>]
                  = ModelOutput(args.model_name, k, c)

\* C3: however the run ends, the embedding image and the patch geometry are
\* both registered or neither is.
C3_BothOutputsOrNeither ==
    pc = "done" =>
        ((EmbeddingKey(args.model_name) \in images) <=> (PatchesKey \in shapes))

\* C4: a magnification request on metadata whose properties hold neither an
\* objective power nor a microns-per-pixel value builds no grid, allocates no
\* canvas, extracts no patch and writes no key; once _get_extraction_parameters
\* has returned, ok is false and the run has returned False.
NoUsableProperty ==
    /\ args.magnification # None
    /\ image.has_metadata
    /\ ~Truthy(image.objective_power)
    /\ ~Truthy(image.mpp_x)
C4_UnresolvedMagnificationFails ==
    NoUsableProperty =>
        /\ patches = None /\ embedding_image = None /\ extracted = 0
        /\ images = {} /\ shapes = {}
        /\ pc \in {"embed_batch", "get_extraction_parameters", "done"}
        /\ (pc = "done" /\ args.model_name \in ModelNames) =>
              (success = FALSE /\ result = "False")

C4_Witness ==
    NoUsableProperty /\ pc = "done" /\ result = "False" /\ success = FALSE

\* C5: for a non-empty non-decreasing level_downsamples that starts at 1 and
\* a downsample > 1, the selected level is the largest index whose downsample
\* is at most downsample + 0.01 (the last level when none exceeds it).
NonDecreasing(q) == \A p \in 1..(Len(q) - 1) : RatLE(q[p], q[p + 1])
C5_LargestLevelWithinEpsilon ==
    LET lds == probe.level_downsamples
        bound == RatAdd(probe.downsample, Rat(1, 100))
    IN  (/\ probe.level # None
         /\ Len(lds) >= 1
         /\ NonDecreasing(lds)
         /\ RatEq(lds[1], Rat(1, 1))
         /\ RatLT(Rat(1, 1), probe.downsample))
        => /\ probe.level[1] \in 0..(Len(lds) - 1)
           /\ RatLE(lds[probe.level[1] + 1], bound)
           /\ \A l \in (probe.level[1] + 1)..(Len(lds) - 1) : RatLT(bound, lds[l + 1])

\* downsample 3 on levels 1, 3.01, 4: level 1 is within epsilon, level 2 is not
C5_Witness ==
    /\ probe.level = Some(1)
    /\ probe.level_downsamples = <<Rat(1, 1), Rat(301, 100), Rat(4, 1)>>
    /\ probe.downsample = Rat(3, 1)

\* C6: when a magnification is resolved, resize_factor * downsample equals
\* level_downsamples[level] for the selected level; level_downsamples
\* [1, 2, 4, 8] with downsample 3 gives level 1 and resize_factor 2/3.
C6_ResizeFactorOfSelectedLevel ==
    MagnificationResolved =>
        /\ level[1] \in 0..(Len(image.level_downsamples) - 1)
        /\ RatEq(<<resize_factor[1] * downsample[1], resize_factor[2] * downsample[2]>>,
                 image.level_downsamples[level[1] + 1])
        /\ (/\ image.level_downsamples = <<Rat(1, 1), Rat(2, 1), Rat(4, 1), Rat(8, 1)>>
            /\ RatEq(downsample, Rat(3, 1)))
           => (level = Some(1) /\ RatEq(resize_factor, Rat(2, 3)))

C6_Witness ==
    /\ MagnificationResolved
    /\ image.level_downsamples = <<Rat(1, 1), Rat(2, 1), Rat(4, 1), Rat(8, 1)>>
    /\ RatEq(downsample, Rat(3, 1))
    /\ level = Some(1)

\* C7: when a magnification is resolved, the returned patch width is
\* round(patch_width * downsample).
C7_PatchWidthIsRounded ==
    MagnificationResolved =>
        patch_width[1] = PyRound(RatMulInt(args.patch_width, downsample))

\* C8 as stated: for a resolved downsample <= 1 the resize_factor equals the
\* downsample itself and is at most 1.
C8_ResizeFactorEqualsDownsample ==
    (MagnificationResolved /\ RatLE(downsample, Rat(1, 1))) =>
        (RatEq(resize_factor, downsample) /\ RatLE(resize_factor, Rat(1, 1)))

\* C8 amended: for a resolved downsample <= 1 the level is 0 and the
\* resize_factor equals level_downsamples[0] / downsample = 1 / downsample,
\* which is at least 1.
C8_ResizeFactorIsInverseDownsample ==
    (MagnificationResolved /\ RatLE(downsample, Rat(1, 1))) =>
        /\ level = Some(0)
        /\ RatEq(resize_factor, <<downsample[2], downsample[1]>>)
        /\ RatLE(Rat(1, 1), resize_factor)

\* objective power 30 at magnification 40: downsample 3/4, resize_factor 4/3
C8_Witness ==
    /\ MagnificationResolved
    /\ RatEq(downsample, Rat(3, 4))
    /\ RatEq(resize_factor, Rat(4, 3))

\* C9: a downsample <= 1 selects level 0 whatever the list of level
\* downsamples, and on a non-empty list that starts at 1 the selected level
\* lies in 0 .. len - 1 for every downsample.
C9_LevelInRange ==
    LET lds == probe.level_downsamples
    IN  probe.level # None =>
           /\ RatLE(probe.downsample, Rat(1, 1)) => probe.level = Some(0)
           /\ (Len(lds) >= 1 /\ RatEq(lds[1], Rat(1, 1))) =>
                 probe.level[1] \in 0..(Len(lds) - 1)

\* downsample 1/2 on the unordered list 1, 4, 2
C9_Witness ==
    /\ probe.level = Some(0)
    /\ probe.downsample = Rat(1, 2)
    /\ probe.level_downsamples = <<Rat(1, 1), Rat(4, 1), Rat(2, 1)>>

\* C10: with a magnification, downsample is objective_power / magnification
\* when the metadata has an objective power, and otherwise obj / magnification
\* for an obj of {80, 40, 20, 10, 5} that minimizes |10 / obj - mpp_x|.
C10_DownsampleFromMetadata ==
    MagnificationResolved =>
        IF Truthy(image.objective_power)
        THEN RatEq(downsample, RatDiv(image.objective_power, Rat(args.magnification[1], 1)))
        ELSE \E obj \in {80, 40, 20, 10, 5} :
                /\ \A o \in {80, 40, 20, 10, 5} :
                      RatLE(RatAbsDiff(Rat(10, obj), image.mpp_x),
                            RatAbsDiff(Rat(10, o), image.mpp_x))
                /\ RatEq(downsample, Rat(obj, args.magnification[1]))

\* C11: without a magnification the extraction parameters are ok = true,
\* resize_factor = 1, the caller's patch_width, and the caller's level (0 when
\* none was given); the metadata is not read, so its absence raises nothing.
ParametersResolved ==
    ModelKnown(args.model_name) /\ pc \notin {"embed_batch", "get_extraction_parameters"}
C11_NoMagnificationKeepsArguments ==
    (args.magnification = None /\ ParametersResolved) =>
        /\ success
        /\ RatEq(resize_factor, Rat(1, 1))
        /\ patch_width = Some(args.patch_width)
        /\ level = (IF args.level = None THEN Some(0) ELSE args.level)
        /\ result # "KeyError"

\* a level given by the caller, on an image without metadata
C11_Witness ==
    /\ args.magnification = None /\ ParametersResolved
    /\ ~image.has_metadata
    /\ args.level = Some(1)
    /\ level = Some(1)

\* C12: a run with an unknown model name ends with the assertion of
\* embed_batch and does nothing else: no extraction parameter is set, no grid
\* and no canvas is built, no patch is extracted, nothing is registered.
C12_UnknownModelFailsFirst ==
    args.model_name \notin ModelNames =>
        /\ pc \in {"embed_batch", "done"}
        /\ pc = "done" => result = "AssertionError"
        /\ level = None /\ resize_factor = None /\ patch_width = None
        /\ ~success /\ downsample = None
        /\ patches = None /\ embedding_image = None
        /\ extracted = 0
        /\ images = {} /\ shapes = {} /\ transformation = None

\* the unknown name together with metadata that resolves no magnification
C12_Witness ==
    /\ args.model_name \notin ModelNames
    /\ NoUsableProperty
    /\ result = "AssertionError"

\* C13: the embedder maps a batch of N patches to a result of shape
\* (N, output_dim), for a batch of one too.
C13_EmbedderKeepsBatchDimension ==
    embedded.n >= 1 => embedded.shape = <<embedded.n, output_dim>>

\* C14: no run ends with the stacking error of a batch whose patches differ
\* in shape, whatever the image extent.
C14_BoundaryPatchesStack ==
    /\ result # "RuntimeError"
    /\ (patches # None /\ pc = "loop" /\ i < Len(patches.bboxes)) =>
          LET batch == BatchBoxes(Len(patches.bboxes), i, args.batch_size)
          IN  ~PatchesRaise(batch) => ~StackRaises(batch)

\* C15 as stated: the raster is registered under "embedding_<model_name>".
C15_KeyIsEmbeddingPrefix ==
    result = "SpatialImage" =>
        /\ <<"embedding_", args.model_name>> \in images
        /\ shapes = {PatchesKey}

\* C15 (amended): the raster is registered under "sopa_<model_name>", the
\* patch geometry under the one key EMBEDDINGS_PATCHES_KEY for every model.
C15_KeyIsSopaPrefix ==
    result = "SpatialImage" =>
        /\ images = {<<"sopa_", args.model_name>>}
        /\ shapes = {<<"EMBEDDINGS_PATCHES_KEY">>}

C15_Witness ==
    /\ result = "SpatialImage"
    /\ args.model_name = "Resnet50Features"
    /\ <<"sopa_", "Resnet50Features">> \in images

\* C16: the transformation of the registered raster scales x and y by the
\* adjusted patch width (int(patch_width * downsample) under a magnification),
\* which is the width the grid was built with, so the box of the patch at
\* canvas cell (r, c) starts at base pixel (c * width, r * width).
C16_ScaleIsAdjustedPatchWidth ==
    transformation # None =>
        /\ transformation = <<patch_width[1], patch_width[1]>>
        /\ patches.patch_width = patch_width[1]
        /\ args.magnification # None =>
              patch_width[1] = AdjustedPatchWidth(args.patch_width, downsample)
        /\ \A k \in 1..Len(patches.bboxes) :
              /\ patches.bboxes[k][1] = patches.ilocs[k][1] * transformation[1]
              /\ patches.bboxes[k][2] = patches.ilocs[k][2] * transformation[2]

\* a magnification that changes the width, on a grid of more than one patch
C16_Witness ==
    /\ transformation # None
    /\ args.magnification # None
    /\ patch_width[1] # args.patch_width
    /\ Len(patches.bboxes) > 1

\* C17: the scenario run (256 x 256, patch_width 64, level 0, constant model
\* of output_dim 4) ends, unless the model or the storage raises
\* ("Exception"), in a (4, 4, 4) canvas with (1, 2, 3, 4) in every cell and
\* the scale (64, 64); and in every run the canvas has the shape
\* (output_dim, rows, cols) and, past the loop, holds in each cell the model
\* output for the patch of that cell.
Scenario == image = ScenarioImage /\ args = ScenarioArgs /\ output_dim = 4
C17_CanvasHoldsModelOutputs ==
    /\ (Scenario /\ pc = "done") => result \in {"SpatialImage", "Exception"}
    /\ (Scenario /\ result = "SpatialImage") =>
          /\ patches.shape = <<4, 4>>
          /\ DOMAIN embedding_image = (1..4) \X (0..3) \X (0..3)
          /\ \A c \in 1..4, y \in 0..3, x \in 0..3 : embedding_image[<<c, y, x>>] = c
          /\ transformation = <<64, 64>>
    /\ embedding_image # None =>
          DOMAIN embedding_image =
             (1..output_dim) \X (0..(patches.shape[1] - 1)) \X (0..(patches.shape[2] - 1))
    /\ AfterLoop =>
          \A k \in 1..Len(patches.bboxes), c \in 1..output_dim :
              embedding_image[<<c, CellOf(k)[1], CellOf(k)[2]>>]
                = ModelOutput(args.model_name, k, c)

C17_Witness == Scenario /\ result = "SpatialImage"

\* the canvas the loop of lines 174-183 builds from emb when it takes the
\* batches from `start` on in increasing order
RECURSIVE CanvasFrom(_, _)
CanvasFrom(emb, start) ==
    IF start >= Len(patches.bboxes)
    THEN emb
    ELSE LET n == Len(patches.bboxes)
             batch == BatchBoxes(n, start, args.batch_size)
             locs == BatchIlocs(n, start, Len(batch))
             value == Transpose(Embedder(args.model_name, batch, output_dim))
         IN  CanvasFrom(Scatter(emb, locs, value),
                        NextBatchStart(start, args.batch_size))
InOrderCanvas == CanvasFrom(Zeros(output_dim, patches.shape), 0)

\* C18: when every batch has been handled, in whatever order, each with its
\* own boxes and scatter targets, the canvas is the one the increasing order
\* of the loop builds.
C18_CanvasIndependentOfBatchOrder ==
    AfterLoop => embedding_image = InOrderCanvas

\* several batches, the first of them handled last
C18_Witness ==
    /\ AfterLoop
    /\ Cardinality(processed) >= 2
    /\ i = 0

C20_DryRunChangesNothing ==
    flags.dry_run =>
        /\ fs = fs0
        /\ validated = {}
        /\ removed = {}

\* a dry run over a fresh run directory with both files has returned
C20_Witness ==
    /\ flags.dry_run
    /\ \E r \in DOMAIN worker :
          /\ worker[r] = "returned"
          /\ fs0[r] = {}
          /\ run_dirs[r].csv /\ run_dirs[r].parquet

\* C21: with --skip-validation no validation is started, and a run directory
\* that was filtered without an exception keeps its filtered_dir.
C21_SkipValidationSkips ==
    flags.skip_validation =>
        /\ validated = {}
        /\ \A r \in DOMAIN worker :
              (worker[r] = "returned" /\ ~flags.dry_run) => FilteredDir \in fs[r]

\* C22: when a magnification is resolved the returned patch width and
\* resize_factor are positive, and the grid is built with a positive width.
C22_PositiveWidthAndFactor ==
    /\ MagnificationResolved =>
          /\ patch_width[1] > 0
          /\ RatLT(Rat(0, 1), resize_factor)
    /\ patches # None => patches.patch_width > 0

\* C23: under a resolved magnification every patch whose box has the full
\* adjusted width and height comes out of _torch_patch with the caller's
\* patch_width rows and columns.
Interior(k) ==
    /\ patches.bboxes[k][3] - patches.bboxes[k][1] = patch_width[1]
    /\ patches.bboxes[k][4] - patches.bboxes[k][2] = patch_width[1]
C23_InteriorPatchHasLogicalWidth ==
    (MagnificationResolved /\ patches # None) =>
        \A k \in 1..Len(patches.bboxes) :
            (Interior(k) /\ level[1] < Len(image.level_downsamples)) =>
                PatchShape(image, patches.bboxes[k], level[1], resize_factor)
                  = <<args.patch_width, args.patch_width>>

\* C24: a patch read with h rows and w columns leaves _torch_patch with
\* round(h * resize_factor) rows and round(w * resize_factor) columns when
\* resize_factor # 1, and with h rows and w columns when resize_factor = 1.
C24_ResizedRowsFromRows ==
    (patches # None /\ level[1] < Len(image.level_downsamples)) =>
        \A k \in 1..Len(patches.bboxes) :
            LET read == QueryShape(image, patches.bboxes[k], level[1])
            IN  PatchShape(image, patches.bboxes[k], level[1], resize_factor)
                  = IF RatEq(resize_factor, Rat(1, 1)) THEN read
                    ELSE <<PyRound(RatMulInt(read[1], resize_factor)),
                           PyRound(RatMulInt(read[2], resize_factor))>>

\* C25: a pixel of an unsigned integer type of b bits is divided by the
\* largest value of that type, 2^b - 1, so the result lies in [0, 1].
C25_NormalizedByTypeMaximum ==
    probe.normalized # None =>
        /\ RatEq(probe.normalized, Rat(probe.value, 2 ^ probe.bits - 1))
        /\ RatLE(Rat(0, 1), probe.normalized)
        /\ RatLE(probe.normalized, Rat(1, 1))

\* C26: for every batch of the loop the scatter targets are the ilocs at the
\* positions of the batch's boxes, (loc_x, loc_y) = (col, row) with
\* 0 <= loc_y < rows and 0 <= loc_x < cols of the canvas, and once a batch is
\* written the cell of each of its boxes holds the model output for that box.
C26_ScatterTargetsInCanvas ==
    patches # None =>
        LET n == Len(patches.bboxes)
        IN  /\ \A start \in BatchStarts(n, args.batch_size) :
                  LET batch == BatchBoxes(n, start, args.batch_size)
                      locs == BatchIlocs(n, start, Len(batch))
                  IN  /\ Len(locs) = Len(batch)
                      /\ \A p \in 1..Len(batch) :
                            LET loc_x == patches.ilocs[locs[p]][1]
                                loc_y == patches.ilocs[locs[p]][2]
                            IN  /\ locs[p] = batch[p]
                                /\ loc_y \in 0..(patches.shape[1] - 1)
                                /\ loc_x \in 0..(patches.shape[2] - 1)
                                /\ \A c \in 1..output_dim :
                                      <<c, loc_y, loc_x>> \in DOMAIN embedding_image
            /\ \A k \in 1..Min(i, n), c \in 1..output_dim :
                  embedding_image[<<c, patches.ilocs[k][2], patches.ilocs[k][1]>>]
                    = ModelOutput(args.model_name, k, c)

\* a grid with more columns than rows, written in more than one batch
C26_Witness ==
    /\ AfterLoop
    /\ patches.shape[1] < patches.shape[2]
    /\ args.batch_size < Len(patches.bboxes)
    /\ args.model_name = "Resnet50Features"

\* C27: a run on an image without metadata attribute that asks for a
\* magnification ends with the value False and registers nothing.
C27_AbsentMetadataReturnsFalse ==
    (~image.has_metadata /\ args.magnification # None
       /\ args.model_name \in ModelNames /\ pc = "done") =>
        /\ result = "False"
        /\ images = {} /\ shapes = {}

\* C28: without --dry-run, when process_run_directory has returned or raised,
\* a filtered_dir that existed before the call is as it was, and a new one
\* exists only after a filtering without exception and a validation that
\* succeeded (then it holds the filtered files); every failure leaves none.
Finished(r) == worker[r] \in {"returned", "raised"}
C28_FilteredDirOnlyAfterSuccess ==
    ~flags.dry_run =>
        \A r \in DOMAIN worker :
            Finished(r) =>
                IF FilteredDir \in fs0[r]
                THEN fs[r] = fs0[r] /\ r \notin validated /\ r \notin removed
                ELSE /\ worker[r] = "raised" => fs[r] = {}
                     /\ r \in removed => fs[r] = {}
                     /\ FilteredDir \in fs[r] =>
                           /\ worker[r] = "returned"
                           /\ r \in validated /\ r \notin removed
                           /\ FilteredCsv \in fs[r] <=> run_dirs[r].csv
                           /\ FilteredParquet \in fs[r] <=> run_dirs[r].parquet
                     /\ fs[r] # {} => FilteredDir \in fs[r]

\* one run raised while filtering and lost its directory, another passed
\* its validation and kept it
C28_Witness ==
    /\ ~flags.dry_run
    /\ \E r, q \in DOMAIN worker :
          /\ worker[r] = "raised" /\ r \in removed /\ fs[r] = {}
          /\ worker[q] = "returned" /\ q \in validated /\ FilteredDir \in fs[q]

\* C29: a transcripts.* file that a call has left in original-transcripts is
\* there, unchanged, after every later call, and no file of
\* original-transcripts is a copy of a filtered file.
C29_OriginalsKeptAndNeverFiltered ==
    /\ \A j \in 1..Len(after_call), k \in 1..Len(after_call), name \in TranscriptNames :
          (j < k /\ after_call[j].original.files[name] # Absent) =>
              after_call[k].original.files[name] = after_call[j].original.files[name]
    /\ after_call # <<>> =>
          \A name \in TranscriptNames :
              original_transcripts_dir.files[name] # "filtered"

\* C30: a second call leaves the sample directory as the first call left it,
\* and after a call the transcripts.* of the sample directory are the
\* filtered files whenever qv20-filtered-transcripts exists.
C30_SecondCallChangesNothing ==
    /\ Len(after_call) >= 2 => after_call[2] = after_call[1]
    /\ (after_call # <<>> /\ filtered_dir.exists) => data_path = filtered_dir.files

====
